---- MODULE Spec2Model ----
(***************************************************************************)
(* Model of scripts/collect_traffic_data.py: one collection cycle          *)
(* (collect_all_routes) with its weather fetch (get_weather_data), the     *)
(* retrying route fetch (get_traffic_data) and the CSV partition it        *)
(* appends to.  A behaviour is one run of the script, started on a data   *)
(* directory as earlier runs of it left it.                                *)
(*                                                                         *)
(* Encoding of Python values:                                              *)
(*   None            <<>>            a value v     <<v>>                   *)
(*   a missing JSON key is <<>> as well (the payloads below never carry    *)
(*   an explicit JSON null, so the two never meet in one field).           *)
(*   Numbers are integers in the unit of the rounded result:               *)
(*   distance_km in 1/100 km, minutes in 1/10 min, temperature and wind    *)
(*   speed in 1/10 of their unit.                                          *)
(***************************************************************************)
EXTENDS Integers, Sequences, FiniteSets, TLC

\* ---------------------------------------------------------------- bounds
MaxRoutes == 3      \* routes in routes_config.json: 0..MaxRoutes
MaxPrior  == 1      \* earlier cycles already in today's partition: 0..MaxPrior
MaxTicks  == 1      \* hour boundaries the wall clock may cross during the run

\* ------------------------------------------------------ program constants
max_retries   == 3  \* get_traffic_data(..., max_retries=3)
RATE_LIMIT_SLEEP == 60
TRANSIENT_SLEEP  == 5
ROUTE_PAUSE      == 1
HTTP_OK          == 200
HTTP_RATE_LIMIT  == 429

None == <<>>
Some(v) == <<v>>

VARIABLES
    TOMTOM_API_KEY,      \* TRUE iff the routing credential is set
    OPENWEATHER_API_KEY, \* TRUE iff the weather credential is set
    pc,                  \* position of the script
    clock,               \* wall clock, in hours since a Monday 00:00
    ticks,               \* hour boundaries crossed so far (bounded)
    weather_data,        \* collect_all_routes: weather_data (None before the fetch)
    routes,              \* collect_all_routes: routes
    now,                 \* collect_all_routes: now (None before it is read)
    collected_data,      \* collect_all_routes: collected_data
    idx,                 \* index of the route the for loop is at (1-based)
    attempt,             \* get_traffic_data: attempt
    traffic_data,        \* value returned by get_traffic_data (None = absent)
    files,               \* data/raw: partition name -> sequence of CSV lines
    inflight,            \* network requests issued and not yet answered
    responses,           \* answers received by the current get_traffic_data call
    sleeps,              \* time.sleep calls of the current get_traffic_data call
    pauses,              \* seconds slept between routes (line 228) in this cycle
    weatherFetches,      \* calls of get_weather_data in this cycle
    weatherCalls,        \* HTTP requests to the weather endpoint in this cycle
    routingCalls,        \* HTTP requests to the routing endpoint in this cycle
    callRequests,        \* HTTP requests of the current get_traffic_data call
    sinkWrites,          \* to_csv calls of this cycle, each the rows it was given
    run_summary,         \* the printed summary (None before line 254)
    filesAtStart         \* files as the cycle found them

vars == << TOMTOM_API_KEY, OPENWEATHER_API_KEY, pc, clock, ticks,
           weather_data, routes, now, collected_data, idx, attempt,
           traffic_data, files, inflight, responses, sleeps, pauses,
           weatherFetches, weatherCalls, routingCalls, callRequests,
           sinkWrites, run_summary, filesAtStart >>

\* ------------------------------------------------------------- arithmetic
\* round(n / d) to the nearest integer, ties to even (Python's round; the
\* payload values below are no ties, where binary floats would decide)
RoundDiv(n, d) ==
    LET q == n \div d
        r == n % d
    IN  IF 2 * r < d THEN q
        ELSE IF 2 * r > d THEN q + 1
        ELSE IF q % 2 = 0 THEN q ELSE q + 1

RECURSIVE SumSeq(_)
SumSeq(s) == IF s = <<>> THEN 0 ELSE Head(s) + SumSeq(Tail(s))

Repeat(x, n) == [k \in 1..n |-> x]

\* ---------------------------------------------------------------- weather
NullWeather ==
    [ temperature |-> None, humidity |-> None, weather_condition |-> None,
      rain_1h |-> None, wind_speed |-> None ]

\* The JSON body of a weather answer, flattened: main.temp and wind.speed in
\* 1/100 of their unit, main.humidity, weather[0].main, and rain, which is
\* None (no "rain" key), Some(None) (a "rain" object without "1h") or
\* Some(Some(v)).  A required key that is missing is None: reading it raises.
WeatherBodies ==
    [ temp : {None, Some(2547)}, humidity : {None, Some(60)},
      condition : {None, Some("Rain")},
      rain : {None, Some(None), Some(Some(25))},
      speed : {None, Some(314)} ]

EmptyWeatherBody ==
    [ temp |-> None, humidity |-> None, condition |-> None, rain |-> None,
      speed |-> None ]

WeatherStatuses == {HTTP_OK, 401}

\* An answer of requests.get(OPENWEATHER_URL, ...): an HTTP response or an
\* exception (timeout, connection error).
WeatherResponses ==
    [ kind : {"http"}, status : {HTTP_OK}, data : WeatherBodies ]
    \cup [ kind : {"http"}, status : WeatherStatuses \ {HTTP_OK},
           data : {EmptyWeatherBody} ]
    \cup [ kind : {"exception"}, status : {0}, data : {EmptyWeatherBody} ]

\* data.get('rain', {}).get('1h', 0)
rain_1h_NoDefault(data) ==
    IF data.rain = None THEN None ELSE Head(data.rain)

rain_1h(data) ==
    IF data.rain = None \/ Head(data.rain) = None THEN Some(0)
    ELSE Head(data.rain)

\* get_weather_data, past the credential check, on the answer resp
weather_of_response_Partial(resp) ==
    IF resp.kind = "exception" THEN NullWeather
    ELSE IF resp.status = HTTP_OK
    THEN LET data == resp.data IN
         [ temperature |-> IF data.temp = None THEN None
                           ELSE Some(RoundDiv(Head(data.temp), 10)),
           humidity |-> data.humidity,
           weather_condition |-> data.condition,
           rain_1h |-> rain_1h(data),
           wind_speed |-> IF data.speed = None THEN None
                          ELSE Some(RoundDiv(Head(data.speed), 10)) ]
    ELSE NullWeather

weather_of_response(resp) ==
    IF resp.kind = "exception" THEN NullWeather
    ELSE IF resp.status = HTTP_OK
    THEN LET data == resp.data IN
         IF \/ data.temp = None \/ data.humidity = None
            \/ data.condition = None \/ data.speed = None
         THEN NullWeather       \* KeyError, caught by except Exception
         ELSE [ temperature |-> Some(RoundDiv(Head(data.temp), 10)),
                humidity |-> data.humidity,
                weather_condition |-> data.condition,
                rain_1h |-> rain_1h(data),
                wind_speed |-> Some(RoundDiv(Head(data.speed), 10)) ]
    ELSE NullWeather

\* ---------------------------------------------------------------- routing
\* The JSON body of a 200 routing answer: has_routes says whether the
\* "routes" key is there; a route is its summary (None: no "summary" key),
\* a summary its three fields (None: key missing).
Summaries ==
    [ lengthInMeters : {Some(12347)}, travelTimeInSeconds : {Some(754)},
      trafficDelayInSeconds : {None, Some(130)} ]
    \cup { [ lengthInMeters |-> None, travelTimeInSeconds |-> Some(754),
             trafficDelayInSeconds |-> Some(130) ],
           [ lengthInMeters |-> Some(12347), travelTimeInSeconds |-> None,
             trafficDelayInSeconds |-> Some(130) ] }

RouteInfos == [ summary : {None} \cup { Some(s) : s \in Summaries } ]

RoutingBodies ==
    [ has_routes : {FALSE}, routes : {<<>>} ]
    \cup [ has_routes : {TRUE}, routes : {<<>>} \cup { <<r>> : r \in RouteInfos } ]

ErrorStatuses == {500}

Return(v)   == [ ctl |-> "return",   value |-> v,    sleep |-> <<>> ]
Raise       == [ ctl |-> "raise",    value |-> None, sleep |-> <<>> ]
Continue(s) == [ ctl |-> "continue", value |-> None, sleep |-> s ]

Measurement_NoDelayDefault(summary) ==
    [ distance_km |-> Some(RoundDiv(Head(summary.lengthInMeters), 10)),
      duration_minutes |-> Some(RoundDiv(Head(summary.travelTimeInSeconds), 6)),
      traffic_delay_minutes |->
          IF summary.trafficDelayInSeconds = None THEN None
          ELSE Some(RoundDiv(Head(summary.trafficDelayInSeconds), 6)),
      status |-> "success" ]

Measurement(summary) ==
    [ distance_km |-> Some(RoundDiv(Head(summary.lengthInMeters), 10)),
      duration_minutes |-> Some(RoundDiv(Head(summary.travelTimeInSeconds), 6)),
      traffic_delay_minutes |->
          Some(RoundDiv(IF summary.trafficDelayInSeconds = None THEN 0
                        ELSE Head(summary.trafficDelayInSeconds), 6)),
      status |-> "success" ]

\* the branch of get_traffic_data's loop body for status 200
on_200_RetryNoRoute(data) ==
    IF data.has_routes /\ Len(data.routes) > 0
    THEN LET route_info == data.routes[1] IN
         IF route_info.summary = None THEN Raise
         ELSE LET summary == Head(route_info.summary) IN
              IF \/ summary.lengthInMeters = None
                 \/ summary.travelTimeInSeconds = None
              THEN Raise
              ELSE Return(Some(Measurement(summary)))
    ELSE Continue(<<TRANSIENT_SLEEP>>)

on_200(data) ==
    IF data.has_routes /\ Len(data.routes) > 0
    THEN LET route_info == data.routes[1] IN
         IF route_info.summary = None THEN Raise        \* KeyError, not caught
         ELSE LET summary == Head(route_info.summary) IN
              IF \/ summary.lengthInMeters = None
                 \/ summary.travelTimeInSeconds = None
              THEN Raise                                \* KeyError, not caught
              ELSE Return(Some(Measurement(summary)))
    ELSE Return(None)

\* the branch for status 429
on_429_Guarded(att) ==
    Continue(IF att < max_retries - 1 THEN <<RATE_LIMIT_SLEEP>> ELSE <<>>)

on_429_ShortSleep(att) == Continue(<<TRANSIENT_SLEEP>>)

on_429(att) == Continue(<<RATE_LIMIT_SLEEP>>)

\* the branch for any other status, and the except branch
on_error_Unguarded(att) == Continue(<<TRANSIENT_SLEEP>>)

on_error(att) ==
    Continue(IF att < max_retries - 1 THEN <<TRANSIENT_SLEEP>> ELSE <<>>)

\* for attempt in range(max_retries): is there another iteration?
in_range_Unbounded(att) == TRUE

in_range_OffByOne(att) == att <= max_retries

in_range(att) == att < max_retries

\* ----------------------------------------------------------- orchestrator
\* An entry of routes_config.json
Route(k) ==
    [ id |-> k, name |-> <<"route", k>>, origin |-> <<"origin", k>>,
      destination |-> <<"destination", k>> ]

RouteLists == { [k \in 1..n |-> Route(k)] : n \in 0..MaxRoutes }

\* if not TOMTOM_API_KEY: return
after_credential_check_Unchecked(key) == "weather"

after_credential_check(key) == IF key THEN "weather" ELSE "aborted"

\* now.hour, now.strftime('%A') (as the weekday's number, Monday = 0),
\* 1 if now.weekday() >= 5 else 0, now.strftime('%Y%m%d') (as the day's number)
hour_of(t)       == t % 24
weekday_of(t)    == (t \div 24) % 7
is_weekend_of(t) == IF weekday_of(t) >= 5 THEN 1 ELSE 0
date_str_of(t)   == t \div 24

\* the fields both kinds of Record share (lines 187-200, 208-225)
CommonFields(route, t, weather) ==
    [ timestamp |-> t, route_name |-> route.name, route_id |-> route.id,
      origin |-> route.origin, destination |-> route.destination,
      hour |-> hour_of(t), day_of_week |-> weekday_of(t),
      is_weekend |-> is_weekend_of(t),
      temperature |-> weather.temperature, humidity |-> weather.humidity,
      weather_condition |-> weather.weather_condition,
      rain_1h |-> weather.rain_1h, wind_speed |-> weather.wind_speed ]

Merge(f, g) ==
    [ x \in DOMAIN f \cup DOMAIN g |-> IF x \in DOMAIN g THEN g[x] ELSE f[x] ]

\* traffic_data.update({...})
SuccessRecord(m, route, t, weather) == Merge(m, CommonFields(route, t, weather))

\* the placeholder of a route whose fetch returned None
FailedRecord_NoWeather(route, t, weather) ==
    Merge([ distance_km |-> None, duration_minutes |-> None,
            traffic_delay_minutes |-> None, status |-> "failed" ],
          CommonFields(route, t, NullWeather))

FailedRecord(route, t, weather) ==
    Merge([ distance_km |-> None, duration_minutes |-> None,
            traffic_delay_minutes |-> None, status |-> "failed" ],
          CommonFields(route, t, weather))

\* the if/else of lines 184-226: collected_data after the route's fetch
Collected_DropFailed(cd, td, route, t, weather) ==
    IF td # None
    THEN Append(cd, SuccessRecord(Head(td), route, t, weather))
    ELSE cd

Collected(cd, td, route, t, weather) ==
    IF td # None
    THEN Append(cd, SuccessRecord(Head(td), route, t, weather))
    ELSE Append(cd, FailedRecord(route, t, weather))

\* ------------------------------------------------------------ dataset sink
column_order ==
    << "timestamp", "route_name", "distance_km", "duration_minutes",
       "traffic_delay_minutes", "status", "route_id", "origin",
       "destination", "hour", "day_of_week", "is_weekend",
       "temperature", "humidity", "weather_condition", "rain_1h",
       "wind_speed" >>

HeaderLine == [ kind |-> "header", names |-> column_order, cells |-> <<>> ]

\* df = df[column_order]: a row is the record's values in column order
RowLine(rec) ==
    [ kind |-> "row", names |-> <<>>,
      cells |-> [ k \in 1..Len(column_order) |-> rec[column_order[k]] ] ]

RowLines(cd) == [ k \in 1..Len(cd) |-> RowLine(cd[k]) ]

\* df.to_csv(csv_file, index=False)
to_csv_create(cd) == <<HeaderLine>> \o RowLines(cd)

\* df.to_csv(csv_file, mode='a', header=False, index=False)
to_csv_append_WithHeader(old, cd) == old \o <<HeaderLine>> \o RowLines(cd)

to_csv_append(old, cd) == old \o RowLines(cd)

\* df[df['status'] == 'success'].shape[0]
success_count_AllRows(cd) == Len(cd)

success_count(cd) == Cardinality({ k \in 1..Len(cd) : cd[k].status = "success" })

\* if collected_data:
has_data_Always(cd) == TRUE

has_data(cd) == cd # <<>>

\* for route in routes: the loop is over once every route was taken
loop_done_AfterFirst(i, rs) == i > Len(rs) \/ i > 1

loop_done(i, rs) == i > Len(rs)

\* the time the Records and the partition name are built from: now, read
\* once at line 167 (n), not the clock at the time of use (c)
cycle_time_Reread(n, c) == c

cycle_time(n, c) == Head(n)

\* requests.get blocks until the request req is answered
answered_StillPending(reqs, req) == reqs

answered(reqs, req) == reqs \ {req}

\* ------------------------------------------------------------------ state
StartClocks == {119}   \* the run starts on a Friday at 23:00

\* What an earlier cycle of the same day, one hour before t, handed to the
\* sink: one route, whose fetch failed, without weather.
PriorCycle(t) == Collected(<<>>, None, Route(1), t - 1, NullWeather)

\* Today's partition after k >= 1 such cycles
RECURSIVE PriorLines(_, _)
PriorLines(t, k) ==
    IF k = 1 THEN to_csv_create(PriorCycle(t))
    ELSE to_csv_append(PriorLines(t, k - 1), PriorCycle(t))

\* data/raw as earlier runs left it: partition name -> lines
PriorFiles(t, k) ==
    IF k = 0 THEN <<>> ELSE (date_str_of(t) :> PriorLines(t, k))

EmptyRoutingBody == [ has_routes |-> FALSE, routes |-> <<>> ]

\* An answer of requests.get(url, ...) in get_traffic_data
Http(status, data) == [ kind |-> "http", status |-> status, data |-> data ]
RequestException  == [ kind |-> "exception", status |-> 0, data |-> EmptyRoutingBody ]

Terminal == {"done", "aborted", "crashed"}

Init ==
    /\ TOMTOM_API_KEY \in BOOLEAN
    /\ OPENWEATHER_API_KEY \in BOOLEAN
    /\ pc = "start"
    /\ clock \in StartClocks
    /\ ticks = 0
    /\ weather_data = NullWeather
    /\ routes = <<>>
    /\ now = None
    /\ collected_data = <<>>
    /\ idx = 1
    /\ attempt = 0
    /\ traffic_data = None
    /\ \E k \in 0..MaxPrior : files = PriorFiles(clock, k)
    /\ filesAtStart = files
    /\ inflight = {}
    /\ responses = <<>>
    /\ sleeps = <<>>
    /\ pauses = 0
    /\ weatherFetches = 0
    /\ weatherCalls = 0
    /\ routingCalls = 0
    /\ callRequests = 0
    /\ sinkWrites = <<>>
    /\ run_summary = None

\* time passing while the script sleeps: the clock may cross an hour boundary
Elapse ==
    \/ UNCHANGED << clock, ticks >>
    \/ /\ ticks < MaxTicks
       /\ clock' = clock + 1
       /\ ticks' = ticks + 1

env      == << TOMTOM_API_KEY, OPENWEATHER_API_KEY, filesAtStart, run_summary >>
time     == << clock, ticks >>
fetcher  == << attempt, traffic_data, responses, sleeps, callRequests >>
counters == << weatherFetches, weatherCalls, routingCalls, pauses >>
loop     == << routes, now, collected_data, idx >>

\* lines 150-154
CheckCredential ==
    /\ pc = "start"
    /\ pc' = after_credential_check(TOMTOM_API_KEY)
    /\ UNCHANGED << env, time, fetcher, counters, loop, weather_data, files,
                    inflight, sinkWrites >>

\* lines 158, 40-48: get_weather_data without the weather credential
WeatherNoKey ==
    /\ pc = "weather"
    /\ ~OPENWEATHER_API_KEY
    /\ weatherFetches' = weatherFetches + 1
    /\ weather_data' = NullWeather
    /\ pc' = "load"
    /\ UNCHANGED << env, time, fetcher, loop, files, inflight, sinkWrites,
                    weatherCalls, routingCalls, pauses >>

\* lines 158, 50-58: get_weather_data sends its request
WeatherRequest ==
    /\ pc = "weather"
    /\ OPENWEATHER_API_KEY
    /\ weatherFetches' = weatherFetches + 1
    /\ weatherCalls' = weatherCalls + 1
    /\ inflight' = inflight \cup {<<"weather", 0>>}
    /\ pc' = "weather_await"
    /\ UNCHANGED << env, time, fetcher, loop, files, sinkWrites, weather_data,
                    routingCalls, pauses >>

\* lines 60-88: the answer, or the exception, of the weather request
WeatherResponse ==
    /\ pc = "weather_await"
    /\ \E resp \in WeatherResponses :
          weather_data' = weather_of_response(resp)
    /\ inflight' = answered(inflight, <<"weather", 0>>)
    /\ pc' = "load"
    /\ UNCHANGED << env, time, fetcher, counters, loop, files, sinkWrites >>

\* lines 164-171
LoadRoutes ==
    /\ pc = "load"
    /\ routes' \in RouteLists
    /\ now' = Some(clock)
    /\ collected_data' = <<>>
    /\ idx' = 1
    /\ pc' = "loop"
    /\ UNCHANGED << env, time, fetcher, counters, weather_data, files,
                    inflight, sinkWrites >>

\* lines 173-182, 95-104: the loop takes the next route and calls get_traffic_data
CallGetTraffic ==
    /\ pc = "loop"
    /\ ~loop_done(idx, routes)
    /\ attempt' = 0
    /\ traffic_data' = None
    /\ responses' = <<>>
    /\ sleeps' = <<>>
    /\ callRequests' = 0
    /\ pc' = "gtd_loop"
    /\ UNCHANGED << env, time, counters, loop, weather_data, files, inflight,
                    sinkWrites >>

\* line 173: the loop is over
LoopExit ==
    /\ pc = "loop"
    /\ loop_done(idx, routes)
    /\ pc' = "sink"
    /\ UNCHANGED << env, time, fetcher, counters, loop, weather_data, files,
                    inflight, sinkWrites >>

\* lines 106-108: the next attempt sends its request
SendRequest ==
    /\ pc = "gtd_loop"
    /\ in_range(attempt)
    /\ routingCalls' = routingCalls + 1
    /\ callRequests' = callRequests + 1
    /\ inflight' = inflight \cup {<<"route", idx>>}
    /\ pc' = "gtd_await"
    /\ UNCHANGED << env, time, loop, weather_data, files, sinkWrites,
                    weatherFetches, weatherCalls, pauses, attempt,
                    traffic_data, responses, sleeps >>

\* line 144: the attempts are used up
ReturnExhausted ==
    /\ pc = "gtd_loop"
    /\ ~in_range(attempt)
    /\ traffic_data' = None
    /\ pc' = "merge"
    /\ UNCHANGED << env, time, counters, loop, weather_data, files, inflight,
                    sinkWrites, attempt, responses, sleeps, callRequests >>

\* the loop body on the answer resp, h being what its branch does
Handle(resp, h) ==
    /\ inflight' = answered(inflight, <<"route", idx>>)
    /\ responses' = Append(responses, resp)
    /\ sleeps' = sleeps \o h.sleep
    /\ IF h.sleep = <<>> THEN UNCHANGED time ELSE Elapse
    /\ CASE h.ctl = "return" ->
              /\ traffic_data' = h.value
              /\ pc' = "merge"
              /\ UNCHANGED attempt
         [] h.ctl = "continue" ->
              /\ attempt' = attempt + 1
              /\ pc' = "gtd_loop"
              /\ UNCHANGED traffic_data
         [] h.ctl = "raise" ->      \* the KeyError ends the script
              /\ pc' = "crashed"
              /\ UNCHANGED << attempt, traffic_data >>
    /\ UNCHANGED << env, counters, loop, weather_data, files, sinkWrites,
                    callRequests >>

\* lines 110-125
Recv200 ==
    /\ pc = "gtd_await"
    /\ \E data \in RoutingBodies : Handle(Http(HTTP_OK, data), on_200(data))

\* lines 127-130
Recv429 ==
    /\ pc = "gtd_await"
    /\ Handle(Http(HTTP_RATE_LIMIT, EmptyRoutingBody), on_429(attempt))

\* lines 132-136
RecvErrorStatus ==
    /\ pc = "gtd_await"
    /\ \E st \in ErrorStatuses :
          Handle(Http(st, EmptyRoutingBody), on_error(attempt))

\* lines 138-142
RecvException ==
    /\ pc = "gtd_await"
    /\ Handle(RequestException, on_error(attempt))

\* lines 184-228: the route's Record, then the pause between routes.  The
\* call that returned is over: its attempt counter and the log of its
\* answers and sleeps go with it.
MergeRecord ==
    /\ pc = "merge"
    /\ collected_data' =
          Collected(collected_data, traffic_data, routes[idx],
                    cycle_time(now, clock), weather_data)
    /\ pauses' = pauses + ROUTE_PAUSE
    /\ Elapse
    /\ idx' = idx + 1
    /\ attempt' = 0
    /\ responses' = <<>>
    /\ sleeps' = <<>>
    /\ callRequests' = 0
    /\ pc' = "loop"
    /\ UNCHANGED << env, traffic_data, weather_data, files, inflight,
                    sinkWrites, routes, now, weatherFetches, weatherCalls,
                    routingCalls >>

\* lines 230-251, the partition does not exist
SinkCreate ==
    /\ pc = "sink"
    /\ has_data(collected_data)
    /\ date_str_of(cycle_time(now, clock)) \notin DOMAIN files
    /\ files' = files @@ (date_str_of(cycle_time(now, clock))
                             :> to_csv_create(collected_data))
    /\ sinkWrites' = Append(sinkWrites, collected_data)
    /\ run_summary' = Some([ succeeded |-> success_count(collected_data),
                             total |-> Len(routes) ])
    /\ pc' = "done"
    /\ UNCHANGED << TOMTOM_API_KEY, OPENWEATHER_API_KEY, filesAtStart, time,
                    fetcher, counters, loop, weather_data, inflight >>

\* lines 230-248, the partition exists
SinkAppend ==
    /\ pc = "sink"
    /\ has_data(collected_data)
    /\ date_str_of(cycle_time(now, clock)) \in DOMAIN files
    /\ files' = [ files EXCEPT ![date_str_of(cycle_time(now, clock))] =
                     to_csv_append(@, collected_data) ]
    /\ sinkWrites' = Append(sinkWrites, collected_data)
    /\ run_summary' = Some([ succeeded |-> success_count(collected_data),
                             total |-> Len(routes) ])
    /\ pc' = "done"
    /\ UNCHANGED << TOMTOM_API_KEY, OPENWEATHER_API_KEY, filesAtStart, time,
                    fetcher, counters, loop, weather_data, inflight >>

\* lines 258-259
SinkEmpty ==
    /\ pc = "sink"
    /\ ~has_data(collected_data)
    /\ pc' = "done"
    /\ UNCHANGED << env, time, fetcher, counters, loop, weather_data, files,
                    inflight, sinkWrites >>

Next ==
    \/ CheckCredential
    \/ WeatherNoKey
    \/ WeatherRequest
    \/ WeatherResponse
    \/ LoadRoutes
    \/ CallGetTraffic
    \/ LoopExit
    \/ SendRequest
    \/ ReturnExhausted
    \/ Recv200
    \/ Recv429
    \/ RecvErrorStatus
    \/ RecvException
    \/ MergeRecord
    \/ SinkCreate
    \/ SinkAppend
    \/ SinkEmpty

Spec == Init /\ [][Next]_vars

\* The script is one thread that is never suspended for good: every network
\* call returns or times out and every sleep ends, so a step that can be
\* taken is taken.
SpecFair == Spec /\ WF_vars(Next)

TypeOK ==
    /\ pc \in {"start", "weather", "weather_await", "load", "loop", "gtd_loop",
               "gtd_await", "merge", "sink"} \cup Terminal
    /\ idx \in 1..(Len(routes) + 1)
    /\ attempt \in 0..max_retries
    /\ Len(responses) <= max_retries
    /\ ticks \in 0..MaxTicks

\* ------------------------------------------------------- reading the state
Is200(r)       == r.kind = "http" /\ r.status = HTTP_OK
Is429(r)       == r.kind = "http" /\ r.status = HTTP_RATE_LIMIT
IsTransient(r) == r.kind = "exception" \/ (r.kind = "http" /\ ~Is200(r) /\ ~Is429(r))
HasRoute(r)    == Is200(r) /\ r.data.has_routes /\ Len(r.data.routes) > 0
IsNoRoute(r)   == Is200(r) /\ ~HasRoute(r)
IsWellFormed(r) ==
    /\ HasRoute(r)
    /\ r.data.routes[1].summary # None
    /\ Head(r.data.routes[1].summary).lengthInMeters # None
    /\ Head(r.data.routes[1].summary).travelTimeInSeconds # None
IsMalformed(r) == HasRoute(r) /\ ~IsWellFormed(r)

Last(s) == s[Len(s)]
AllBut(s) == SubSeq(s, 1, Len(s) - 1)
All429(s) == \A j \in 1..Len(s) : Is429(s[j])
AllTransient(s) == \A j \in 1..Len(s) : IsTransient(s[j])

InCall   == pc \in {"gtd_loop", "gtd_await"}
Returned == pc = "merge"
Statuses == [ k \in 1..Len(collected_data) |-> collected_data[k].status ]

\* ----------------------------------------------------------------- claims

\* C1: a cycle that passed the credential check and ran its loop to the end
\* has produced exactly one Record per configured Route, the k-th for the
\* k-th route, whatever each fetch returned; inside the loop there is one
\* Record for each route already handled.
C1_OneRecordPerRoute ==
    /\ pc \in {"loop", "gtd_loop", "gtd_await", "merge"} =>
          Len(collected_data) = idx - 1
    /\ pc \in {"sink", "done"} =>
          /\ Len(collected_data) = Len(routes)
          /\ \A k \in 1..Len(routes) : collected_data[k].route_id = routes[k].id

C1_Witness ==
    /\ pc = "done"
    /\ Len(routes) >= 2
    /\ \E j, k \in 1..Len(collected_data) :
          collected_data[j].status = "failed" /\ collected_data[k].status = "success"

\* C2: once the credential check has passed, the cycle ends only by handing
\* the Records of all its routes to the sink: no answer of the routing
\* upstream for one route ends it earlier.
C2_NoRouteFailureAborts ==
    (TOMTOM_API_KEY /\ pc \in Terminal) =>
        /\ pc = "done"
        /\ idx = Len(routes) + 1
        /\ Len(collected_data) = Len(routes)
        /\ routes # <<>> => sinkWrites = <<collected_data>>

\* C3: without the routing credential the cycle aborts at once: no call of
\* the weather fetcher, no request to either upstream, no Record, and the
\* data directory stays as it was found.
C3_MissingCredentialAborts ==
    ~TOMTOM_API_KEY =>
        /\ pc \in {"start", "aborted"}
        /\ weatherFetches = 0
        /\ weatherCalls = 0
        /\ routingCalls = 0
        /\ inflight = {}
        /\ collected_data = <<>>
        /\ sinkWrites = <<>>
        /\ files = filesAtStart

C3_Witness ==
    /\ ~TOMTOM_API_KEY
    /\ pc = "aborted"
    /\ DOMAIN files # {}

\* C4: one get_traffic_data call sends at most max_retries requests, every
\* 429 and every transient failure uses up one attempt, and when max_retries
\* answers were all 429s or transient failures the call returns None.
C4_AtMostMaxAttempts ==
    /\ callRequests <= max_retries
    /\ routingCalls <= max_retries * Len(routes)
    /\ InCall => attempt = Len(responses)
    /\ pc = "gtd_await" => callRequests = attempt + 1
    /\ (Len(responses) = max_retries
          /\ \A j \in 1..Len(responses) :
                Is429(responses[j]) \/ IsTransient(responses[j]))
       => (pc # "gtd_await" /\ traffic_data = None /\ callRequests = max_retries)

C4_Witness ==
    /\ Returned
    /\ Len(responses) = max_retries
    /\ Is429(responses[1])
    /\ responses[2].kind = "exception"
    /\ Is429(responses[3])
    /\ traffic_data = None

\* C5: k 429s (0 <= k < max_retries) and then a 200 with a route: the call
\* returns a success measurement after k+1 requests and k sleeps of 60 s,
\* and neither a request nor a sleep follows the success.
C5_RateLimitedThenSuccess ==
    (responses # <<>> /\ IsWellFormed(Last(responses)) /\ All429(AllBut(responses)))
    => /\ ~InCall
       /\ Len(responses) <= max_retries
       /\ traffic_data = Some(Measurement(Head(Last(responses).data.routes[1].summary)))
       /\ Head(traffic_data).status = "success"
       /\ callRequests = Len(responses)
       /\ sleeps = Repeat(RATE_LIMIT_SLEEP, Len(responses) - 1)

C5_Witness ==
    /\ Returned
    /\ Len(responses) = max_retries
    /\ All429(AllBut(responses))
    /\ IsWellFormed(Last(responses))
    /\ traffic_data # None

\* C6, as stated: after max_retries consecutive 429s the call returns None
\* and has waited (max_retries - 1) x 60 s, the last 429 not being slept on.
C6_NoSleepAfterLast429 ==
    (Returned /\ Len(responses) = max_retries /\ All429(responses))
    => /\ traffic_data = None
       /\ SumSeq(sleeps) = (max_retries - 1) * RATE_LIMIT_SLEEP

\* C6, amended: after max_retries consecutive 429s the call returns None
\* after max_retries requests and has waited max_retries x 60 s: every 429 is
\* slept on, the last one too.
C6_SleepAfterEvery429 ==
    (Len(responses) = max_retries /\ All429(responses))
    => /\ ~(pc = "gtd_await")
       /\ traffic_data = None
       /\ callRequests = max_retries
       /\ sleeps = Repeat(RATE_LIMIT_SLEEP, max_retries)
       /\ SumSeq(sleeps) = max_retries * RATE_LIMIT_SLEEP

C6_Witness ==
    /\ Returned
    /\ Len(responses) = max_retries
    /\ All429(responses)
    /\ traffic_data = None

\* the sleep each answer before the last was followed by: those answers were
\* 429s or transient failures with attempts remaining
SleepsBefore(s) ==
    [ j \in 1..(Len(s) - 1) |->
        IF Is429(s[j]) THEN RATE_LIMIT_SLEEP ELSE TRANSIENT_SLEEP ]

\* C7: a 200 without routes (empty list or no "routes" key), on whichever
\* attempt it arrives, makes the call return None at once: no request and no
\* sleep follows it.
C7_NoRouteReturnsAtOnce ==
    (responses # <<>> /\ IsNoRoute(Last(responses)))
    => /\ ~InCall
       /\ traffic_data = None
       /\ callRequests = Len(responses)
       /\ sleeps = SleepsBefore(responses)

C7_Witness ==
    /\ Returned
    /\ Len(responses) = 2
    /\ IsTransient(responses[1])
    /\ IsNoRoute(responses[2])
    /\ Last(responses).data.has_routes
    /\ traffic_data = None

\* the transient failures among the answers that left an attempt to make
TransientWithAttemptsLeft ==
    { j \in 1..Len(responses) : IsTransient(responses[j]) /\ j < max_retries }

\* C8: a transient failure is followed by a sleep of 5 s exactly when an
\* attempt remains; max_retries transient failures in a row end in None after
\* max_retries requests and max_retries - 1 sleeps of 5 s.
C8_TransientBackoff ==
    /\ SelectSeq(sleeps, LAMBDA d : d = TRANSIENT_SLEEP)
          = Repeat(TRANSIENT_SLEEP, Cardinality(TransientWithAttemptsLeft))
    /\ (Len(responses) = max_retries /\ AllTransient(responses))
       => /\ ~(pc = "gtd_await")
          /\ traffic_data = None
          /\ callRequests = max_retries
          /\ sleeps = Repeat(TRANSIENT_SLEEP, max_retries - 1)

C8_Witness ==
    /\ Returned
    /\ Len(responses) = max_retries
    /\ AllTransient(responses)
    /\ responses[1].kind = "http"
    /\ responses[max_retries].kind = "exception"
    /\ traffic_data = None

WeatherOf(rec) ==
    [ temperature |-> rec.temperature, humidity |-> rec.humidity,
      weather_condition |-> rec.weather_condition, rain_1h |-> rec.rain_1h,
      wind_speed |-> rec.wind_speed ]

\* C9: the weather fetcher is called once per cycle, before the first routing
\* request, never again, and every Record of the cycle carries the snapshot
\* it returned.
C9_WeatherOnceAndShared ==
    /\ weatherFetches <= 1
    /\ weatherCalls <= weatherFetches
    /\ (pc \in {"weather_await", "load", "loop", "gtd_loop", "gtd_await",
                "merge", "sink", "done", "crashed"}) => weatherFetches = 1
    /\ routingCalls > 0 => (weatherFetches = 1 /\ <<"weather", 0>> \notin inflight)
    /\ \A k \in 1..Len(collected_data) :
          WeatherOf(collected_data[k]) = weather_data

C9_Witness ==
    /\ pc = "done"
    /\ weather_data.temperature # None
    /\ \E j, k \in 1..Len(collected_data) :
          collected_data[j].status = "failed" /\ collected_data[k].status = "success"

AllNull(w) ==
    /\ w.temperature = None /\ w.humidity = None /\ w.weather_condition = None
    /\ w.rain_1h = None /\ w.wind_speed = None

AllPopulated(w) ==
    /\ w.temperature # None /\ w.humidity # None /\ w.weather_condition # None
    /\ w.rain_1h # None /\ w.wind_speed # None

WeatherFailure(resp) ==
    \/ resp.kind = "exception"
    \/ resp.status # HTTP_OK
    \/ resp.data.temp = None \/ resp.data.humidity = None
    \/ resp.data.condition = None \/ resp.data.speed = None

C12_OrderStatusSummary ==
    /\ \A k \in 1..Len(collected_data) :
          /\ collected_data[k].route_id = routes[k].id
          /\ collected_data[k].route_name = routes[k].name
    /\ (pc \in {"loop", "sink", "done"} /\ idx > 1) =>
          ((collected_data[idx - 1].status = "success") <=> (traffic_data # None))
    /\ run_summary # None =>
          /\ Head(run_summary).succeeded =
                Len(SelectSeq(Statuses, LAMBDA st : st = "success"))
          /\ Head(run_summary).total = Len(routes)
          /\ Head(run_summary).total = Len(collected_data)
    /\ (pc = "done" /\ routes # <<>>) => run_summary # None

\* routes A, B, C: success, success, failed after seven requests in all
C12_Witness ==
    /\ pc = "done"
    /\ Len(routes) = 3
    /\ Statuses = <<"success", "success", "failed">>
    /\ routingCalls = 1 + 3 + 3
    /\ collected_data[2].traffic_delay_minutes = Some(0)
    /\ Head(run_summary) = [ succeeded |-> 2, total |-> 3 ]

\* C13: a partition is one header, in column_order, followed by rows only;
\* a cycle leaves the lines it found in a partition as they were, in place,
\* and only adds its own rows after them.
C13_HeaderOnceRowsKept ==
    /\ DOMAIN filesAtStart \subseteq DOMAIN files
    /\ \A d \in DOMAIN files :
          /\ Len(files[d]) >= 1
          /\ files[d][1].kind = "header"
          /\ files[d][1].names = column_order
          /\ \A k \in 2..Len(files[d]) : files[d][k].kind = "row"
    /\ \A d \in DOMAIN filesAtStart :
          /\ Len(files[d]) >= Len(filesAtStart[d])
          /\ SubSeq(files[d], 1, Len(filesAtStart[d])) = filesAtStart[d]
          /\ Len(files[d]) > Len(filesAtStart[d]) =>
                files[d] = filesAtStart[d] \o RowLines(collected_data)

C13_Witness ==
    /\ pc = "done"
    /\ \E d \in DOMAIN filesAtStart :
          Len(files[d]) >= Len(filesAtStart[d]) + 2

\* C14: at most one request is outstanding, and only while the script waits
\* for it; a routing request outstanding is one of the route the loop is at,
\* and the Records of all routes before it are already built.
C14_StrictlySequential ==
    /\ Cardinality(inflight) <= 1
    /\ (inflight # {}) <=> (pc \in {"weather_await", "gtd_await"})
    /\ pc = "weather_await" => inflight = {<<"weather", 0>>}
    /\ pc = "gtd_await" => inflight = {<<"route", idx>>}
    /\ InCall => Len(collected_data) = idx - 1
    /\ (InCall \/ Returned) => callRequests <= routingCalls

C14_Witness ==
    /\ pc = "gtd_await"
    /\ idx = 2
    /\ callRequests = 2
    /\ sleeps # <<>>
    /\ collected_data[1].status = "failed"

\* C15: a 200 whose first route lacks a summary field is handled like a
\* transient failure: the call goes on to its next attempt and, the attempts
\* used up, returns None; the error does not leave get_traffic_data.
C15_MalformedIsTransient ==
    (responses # <<>> /\ IsMalformed(Last(responses)))
    => /\ pc # "crashed"
       /\ attempt = Len(responses)
       /\ Len(responses) = max_retries => traffic_data = None

TrafficFields(rec) ==
    << rec.distance_km, rec.duration_minutes, rec.traffic_delay_minutes >>

\* C16: a Record is "failed" exactly when its three traffic fields are all
\* null and "success" exactly when all three are populated; every Record,
\* failed ones too, carries its route's identity, the cycle's temporal
\* fields and the cycle's weather snapshot.
C16_StatusMatchesFields ==
    \A k \in 1..Len(collected_data) :
        LET rec == collected_data[k] IN
        /\ rec.status \in {"success", "failed"}
        /\ (rec.status = "failed") <=>
              (\A f \in 1..3 : TrafficFields(rec)[f] = None)
        /\ (rec.status = "success") <=>
              (\A f \in 1..3 : TrafficFields(rec)[f] # None)
        /\ rec.route_id = routes[k].id
        /\ rec.route_name = routes[k].name
        /\ rec.origin = routes[k].origin
        /\ rec.destination = routes[k].destination
        /\ rec.timestamp = Head(now)
        /\ rec.hour \in 0..23
        /\ rec.day_of_week \in 0..6
        /\ rec.is_weekend \in {0, 1}
        /\ WeatherOf(rec) = weather_data

C16_Witness ==
    /\ pc = "done"
    /\ weather_data.temperature # None
    /\ \E j, k \in 1..Len(collected_data) :
          /\ collected_data[j].status = "failed"
          /\ collected_data[k].status = "success"
          /\ collected_data[k].traffic_delay_minutes = Some(0)

\* C17: to_csv is called at most once per cycle, after the loop has handled
\* the last route and with the Records of all routes; until then, and in a
\* cycle that ends inside the loop, the data directory is as it was found.
C17_SinkOnceAfterLoop ==
    /\ Len(sinkWrites) <= 1
    /\ pc # "done" => (sinkWrites = <<>> /\ files = filesAtStart)
    /\ sinkWrites # <<>> =>
          /\ pc = "done"
          /\ idx = Len(routes) + 1
          /\ inflight = {}
          /\ sinkWrites = <<collected_data>>
          /\ Len(collected_data) = Len(routes)

C17_Witness ==
    /\ pc = "done"
    /\ Len(sinkWrites) = 1
    /\ Len(routes) >= 2
    /\ files # filesAtStart

\* C18: a cycle sends at most one weather request and at most
\* max_retries requests per route, sleeps at most max_retries times per call
\* and once between routes, and comes to its end.
C18_CycleTerminates ==
    /\ [](/\ weatherCalls <= 1
          /\ routingCalls <= Len(routes) * max_retries
          /\ callRequests <= max_retries
          /\ Len(sleeps) <= max_retries
          /\ pauses <= Len(routes) * ROUTE_PAUSE)
    /\ <>(pc \in Terminal)

C18_Witness ==
    /\ pc = "done"
    /\ Len(routes) >= 2
    /\ routingCalls = Len(routes) * max_retries
    /\ pauses = Len(routes) * ROUTE_PAUSE

\* C19: all Records of a cycle have the same timestamp, hour, day_of_week
\* and is_weekend, those of the one reading of the clock made before the
\* first routing request, and the cycle writes them to the partition of that
\* reading's date and to no other, wherever the clock stands by then.
C19_ClockReadOnce ==
    /\ routingCalls > 0 => now # None
    /\ \A k \in 1..Len(collected_data) :
          /\ collected_data[k].timestamp = collected_data[1].timestamp
          /\ collected_data[k].timestamp = Head(now)
          /\ collected_data[k].hour = hour_of(Head(now))
          /\ collected_data[k].day_of_week = weekday_of(Head(now))
          /\ collected_data[k].is_weekend = is_weekend_of(Head(now))
    /\ sinkWrites # <<>> =>
          LET d == date_str_of(collected_data[1].timestamp)
              n == Len(collected_data)
          IN  /\ d \in DOMAIN files
              /\ Len(files[d]) > n
              /\ SubSeq(files[d], Len(files[d]) - n + 1, Len(files[d]))
                    = RowLines(collected_data)
              /\ \A e \in DOMAIN files \ {d} :
                    e \in DOMAIN filesAtStart /\ files[e] = filesAtStart[e]

C19_Witness ==
    /\ pc = "done"
    /\ sinkWrites # <<>>
    /\ Len(collected_data) >= 2
    /\ date_str_of(clock) # date_str_of(Head(now))
    /\ is_weekend_of(clock) # collected_data[1].is_weekend
    /\ date_str_of(clock) \notin DOMAIN files

\* C20: with the routing credential and an empty route list the cycle calls
\* the weather fetcher, sends no routing request, builds no Record and
\* leaves the data directory as it found it.
C20_EmptyRouteList ==
    (TOMTOM_API_KEY /\ routes = <<>> /\ pc \in {"loop", "sink", "done"})
    => /\ weatherFetches = 1
       /\ OPENWEATHER_API_KEY => weatherCalls = 1
       /\ routingCalls = 0
       /\ collected_data = <<>>
       /\ sinkWrites = <<>>
       /\ run_summary = None
       /\ files = filesAtStart

C20_Witness ==
    /\ pc = "done"
    /\ TOMTOM_API_KEY
    /\ routes = <<>>
    /\ weatherCalls = 1
    /\ DOMAIN files = {}

====
